---- MODULE Spec2Model ----
(***************************************************************************)
(* The authentication + invoice mutation action layer of the dashboard:    *)
(*   src/app/lib/actions.ts   createInvoice, updateInvoice, deleteInvoice, *)
(*                            authenticate, FormSchema                     *)
(*   src/unnamed/part_000     getUser, authorize, signIn                   *)
(* Every server action is an async function: it runs synchronously up to   *)
(* its first await (the sql statement), the store executes the statement,  *)
(* and the rest of the function runs when the await settles.  Runs of      *)
(* different requests interleave at the awaits.                            *)
(***************************************************************************)
EXTENDS Integers, Sequences, FiniteSets, TLC

\* ------------------------------------------------------------------ bounds
MaxId == 2           \* ids the store hands out (1..MaxId)
MaxNow == 2          \* last clock tick (the clock starts at tick 1)
TicksPerDay == 2     \* clock ticks in one UTC day
MaxAmountLen == 3    \* longest submitted amount text, in characters
MaxIdentLen == 6     \* longest submitted identifier (email), in characters
MaxSecretLen == 6    \* longest submitted secret (password), in characters

\* Two requests in flight at a time: the runs meet only in the store, one
\* statement at a time.
Procs == {"r1", "r2"}
Ids == 1..MaxId

\* --------------------------------------------------------- submitted text
\* All sequences over chars of length 0..n.
RECURSIVE SeqsUpTo(_, _)
SeqsUpTo(chars, n) ==
    IF n = 0 THEN {<<>>}
    ELSE LET shorter == SeqsUpTo(chars, n - 1)
         IN shorter \cup {Append(s, c) : s \in {t \in shorter : Len(t) = n - 1}, c \in chars}

Digits == {"0", "1", "2", "3", "4", "5", "6", "7", "8", "9"}
DigitVal(c) ==
    CASE c = "0" -> 0 [] c = "1" -> 1 [] c = "2" -> 2 [] c = "3" -> 3 [] c = "4" -> 4
      [] c = "5" -> 5 [] c = "6" -> 6 [] c = "7" -> 7 [] c = "8" -> 8 [] c = "9" -> 9

\* A FormData entry: formData.get(name) is null when the field is absent,
\* else the submitted text.
\* customerId and status carry their text as a string, amount as its
\* characters (the model parses them).
Null == [present |-> FALSE, text |-> ""]
NullText == [present |-> FALSE, text |-> <<>>]
Str(t) == [present |-> TRUE, text |-> t]

\* ---------------------------------------------------------------- numbers
\* A JavaScript number the model can hold: NaN, or the exact decimal
\* mant / 10^exp, kept normalised (no trailing zero in the fraction).
\* Binary rounding of the double is not modelled.
NaN == [nan |-> TRUE, mant |-> 0, exp |-> 0]

RECURSIVE Pow10(_)
Pow10(e) == IF e = 0 THEN 1 ELSE 10 * Pow10(e - 1)

RECURSIVE Norm(_, _)
Norm(m, e) ==
    IF e > 0 /\ m % 10 = 0 THEN Norm(m \div 10, e - 1)
    ELSE [nan |-> FALSE, mant |-> m, exp |-> e]

Num(n) == Norm(n, 0)

RECURSIVE DigitsValue(_)
DigitsValue(s) ==
    IF s = <<>> THEN 0
    ELSE 10 * DigitsValue(SubSeq(s, 1, Len(s) - 1)) + DigitVal(s[Len(s)])

\* Number(text): the empty text is 0; an optional sign, then digits with at
\* most one decimal point and at least one digit; anything else is NaN.
StringToNumber(s) ==
    IF s = <<>> THEN Num(0)
    ELSE LET neg == s[1] = "-"
             body == IF neg THEN Tail(s) ELSE s
             dots == {i \in 1..Len(body) : body[i] = "."}
             digs == SelectSeq(body, LAMBDA c : c \in Digits)
         IN IF /\ Cardinality(dots) <= 1
               /\ Len(digs) = Len(body) - Cardinality(dots)
               /\ Len(digs) >= 1
            THEN LET frac == IF dots = {} THEN 0
                             ELSE Len(body) - (CHOOSE i \in dots : TRUE)
                     v == DigitsValue(digs)
                 IN Norm(IF neg THEN 0 - v ELSE v, frac)
            ELSE NaN

\* Number(value) of a FormData entry: Number(null) is 0.
ToNumber(v) == IF v.present THEN StringToNumber(v.text) ELSE Num(0)

Times(x, k) == IF x.nan THEN NaN ELSE Norm(x.mant * k, x.exp)
IsInteger(x) == ~x.nan /\ x.exp = 0
GreaterThan(x, k) == ~x.nan /\ x.mant > k * Pow10(x.exp)

\* ------------------------------------------------------------- FormSchema
CustomerIdMsg == "Please select a customer."
AmountMsg == "Please enter an amount greater than $0."
StatusMsg == "Please select an invoice status."
NanMsg == "Expected number, received nan"
EnumMsg(t) == "Invalid enum value. Expected 'pending' | 'paid', received '" \o t \o "'"
StatusEnum == {"pending", "paid"}
ListingPath == "/dashboard/invoices"

\* customerId: z.string({invalid_type_error}): any string passes, the empty
\* one included; a non-string (null) is an invalid_type issue.
CustomerIdIssues(v) == IF v.present THEN <<>> ELSE <<CustomerIdMsg>>

\* A slip: gte(0) where the schema says gt(0).
AmountIssuesGte(v) ==
    LET n == ToNumber(v)
    IN IF n.nan THEN <<NanMsg>>
       ELSE IF n.mant >= 0 THEN <<>> ELSE <<AmountMsg>>

\* amount: z.coerce.number().gt(0, {message}): Number(input) first; NaN is an
\* invalid_type issue with zod's default message, a number <= 0 the gt issue.
AmountIssues(v) ==
    LET n == ToNumber(v)
    IN IF n.nan THEN <<NanMsg>>
       ELSE IF GreaterThan(n, 0) THEN <<>> ELSE <<AmountMsg>>

\* A slip: the enum declared without its invalid_type_error.
StatusIssuesNoMessage(v) ==
    IF ~v.present THEN <<"Expected 'pending' | 'paid', received null">>
    ELSE IF v.text \in StatusEnum THEN <<>> ELSE <<EnumMsg(v.text)>>

\* status: z.enum([...], {invalid_type_error}): the custom message is used for
\* a non-string only; a string outside the enum is an invalid_enum_value issue
\* with zod's default message.
StatusIssues(v) ==
    IF ~v.present THEN <<StatusMsg>>
    ELSE IF v.text \in StatusEnum THEN <<>> ELSE <<EnumMsg(v.text)>>

\* safeParse of {customerId, amount, status} (id and date omitted).
FieldIssues(form) ==
    [f \in {"customerId", "amount", "status"} |->
        CASE f = "customerId" -> CustomerIdIssues(form.customerId)
          [] f = "amount" -> AmountIssues(form.amount)
          [] f = "status" -> StatusIssues(form.status)]

\* error.flatten().fieldErrors: the fields that have issues, with their messages.
FieldErrors(form) ==
    LET iss == FieldIssues(form)
    IN [f \in {g \in DOMAIN iss : iss[g] # <<>>} |-> iss[f]]

ParseSuccess(form) == DOMAIN FieldErrors(form) = {}

\* validatedFields.data
ParsedData(form) ==
    [customerId |-> form.customerId.text,
     amount |-> ToNumber(form.amount),
     status |-> form.status.text]

\* new Date().toISOString().split('T')[0]
ToISOString(t) == [date |-> t \div TicksPerDay, time |-> t % TicksPerDay]
SplitT0(iso) == iso.date

\* ------------------------------------------------------------------ state
VARIABLES
    invoices,   \* the invoices table: id -> row
    nextId,     \* the id the store gives the next inserted row
    now,        \* the server clock
    run,        \* per request: the server action it runs and how far it is
    auth,       \* the sign-in request: authenticate, signIn, authorize
    session     \* the session signIn has established, if any

vars == <<invoices, nextId, now, run, auth, session>>

NoForm == [customerId |-> Null, amount |-> NullText, status |-> Null]
Pending == [kind |-> "pending"]
Returned(v) == [kind |-> "return", value |-> v]
Redirected(path) == [kind |-> "redirect", path |-> path]
Thrown(e) == [kind |-> "throw", error |-> e]

IdleRun ==
    [pc |-> "idle", op |-> "none", id |-> 0, form |-> NoForm,
     customerId |-> "", amountInCents |-> Num(0), status |-> "", date |-> 0,
     sqlOk |-> FALSE, effects |-> <<>>, result |-> Pending]

\* ------------------------------------------------------------ credentials
Letters == {"a", "b", "c"}
Alnum == Letters \cup Digits

\* z.string().email(): zod's pattern
\*   ^(?!\.)(?!.*\.\.)([A-Z0-9_'+\-\.]*)[A-Z0-9_+-]@([A-Z0-9][A-Z0-9\-]*\.)+[A-Z]{2,}$
\* read case-insensitively, over letters, digits, "." and "@".
IsEmail(s) ==
    LET ats == {i \in 1..Len(s) : s[i] = "@"}
    IN /\ Cardinality(ats) = 1
       /\ LET at == CHOOSE i \in ats : TRUE
              local == SubSeq(s, 1, at - 1)
              domain == SubSeq(s, at + 1, Len(s))
              dots == {i \in 1..Len(domain) : domain[i] = "."}
          IN /\ s[1] # "."
             /\ \A i \in 1..(Len(s) - 1) : ~(s[i] = "." /\ s[i + 1] = ".")
             /\ Len(local) >= 1
             /\ \A i \in 1..Len(local) : local[i] \in Alnum \cup {"."}
             /\ local[Len(local)] \in Alnum
             /\ dots # {}
             /\ domain[1] # "."
             /\ \A i \in 1..Len(domain) : domain[i] \in Alnum \cup {"."}
             /\ LET last == CHOOSE i \in dots : \A j \in dots : j <= i
                IN /\ Len(domain) - last >= 2
                   /\ \A i \in (last + 1)..Len(domain) : domain[i] \in Letters

MinPassword == 6

\* A slip: the password declared z.string(), without min(6).
CredentialsParseNoMin(credentials) ==
    /\ credentials.email.present
    /\ IsEmail(credentials.email.text)
    /\ credentials.password.present

\* z.object({email: z.string().email(), password: z.string().min(6)})
\*    .safeParse(credentials)
CredentialsParse(credentials) ==
    /\ credentials.email.present
    /\ IsEmail(credentials.email.text)
    /\ credentials.password.present
    /\ Len(credentials.password.text) >= MinPassword

\* bcrypt: the stored hash of a password, and compare(password, hash).  The
\* salt is not modelled: equal passwords have equal hashes.
BcryptHash(password) == <<"$2b$">> \o password
BcryptCompare(password, hash) == BcryptHash(password) = hash

\* The seeded users table, read-only to this layer: email -> row.
SeedEmail == <<"a", "@", "a", ".", "a", "a">>
SeedPassword == <<"p", "q", "p", "q", "p", "q">>
Users == (SeedEmail :> [email |-> SeedEmail, password |-> BcryptHash(SeedPassword)])
Undefined == [email |-> <<>>, password |-> <<>>]

NoSession == <<>>
NoCredentials == [email |-> NullText, password |-> NullText]
IdleAuth ==
    [pc |-> "idle", credentials |-> NoCredentials, user |-> Undefined,
     lookups |-> 0, authorized |-> "pending", raised |-> "none",
     result |-> Pending]

SeedRow == [customer_id |-> "c1", amount |-> Num(1000), status |-> "pending", date |-> 0]

Init ==
    /\ invoices = (1 :> SeedRow)
    /\ nextId = 2
    /\ now = 1
    /\ run = [p \in Procs |-> IdleRun]
    /\ auth = IdleAuth
    /\ session = NoSession

\* ---------------------------------------------------------- the statements
\* INSERT INTO invoices (customer_id, amount, status, date) VALUES (...):
\* one new row, under the id the store generates.
SqlInsert(table, newId, customerId, amountInCents, status, date) ==
    [i \in DOMAIN table \cup {newId} |->
        IF i = newId
        THEN [customer_id |-> customerId, amount |-> amountInCents,
              status |-> status, date |-> date]
        ELSE table[i]]

\* A slip: the UPDATE with customer_id missing from its SET list.
SqlUpdateKeepsCustomer(table, id, customerId, amountInCents, status) ==
    [i \in DOMAIN table |->
        IF i = id
        THEN [table[i] EXCEPT !.amount = amountInCents, !.status = status]
        ELSE table[i]]

\* A slip: the UPDATE without its WHERE clause.
SqlUpdateAll(table, id, customerId, amountInCents, status) ==
    [i \in DOMAIN table |->
        [table[i] EXCEPT !.customer_id = customerId,
                         !.amount = amountInCents,
                         !.status = status]]

\* UPDATE invoices SET customer_id, amount, status WHERE id = ...
SqlUpdate(table, id, customerId, amountInCents, status) ==
    [i \in DOMAIN table |->
        IF i = id
        THEN [table[i] EXCEPT !.customer_id = customerId,
                              !.amount = amountInCents,
                              !.status = status]
        ELSE table[i]]

\* A slip: the DELETE without its WHERE clause.
SqlDeleteAll(table, id) == [i \in {} |-> table[i]]

\* DELETE FROM invoices WHERE id = ...
SqlDelete(table, id) == [i \in DOMAIN table \ {id} |-> table[i]]

\* ------------------------------------------- the actions, up to the await
CreateFailedMsg == "Missing Fields. Failed to Create Invoice."
UpdateFailedMsg == "Missing Fields. Failed to Update Invoice."
CreateDbMsg == "Database Error: Failed to Create Invoice."
UpdateDbMsg == "Database Error: Failed to Update Invoice."
DeleteDbMsg == "Database Error: Failed to Delete Invoice."
DeletedMsg == "Deleted Invoice."

Stmt(kind) == "sql:" \o kind
Revalidate(path) == "revalidatePath:" \o path
Redirect(path) == "redirect:" \o path

\* if (!validatedFields.success) return {errors, message}
ValidationFailure(r, msg) ==
    [r EXCEPT !.pc = "done",
              !.result = Returned([errors |-> FieldErrors(r.form), message |-> msg])]

\* const {customerId, amount, status} = validatedFields.data;
\* const amountInCents = amount * 100;  then the statement is sent.
PrepareStatement(r, kind) ==
    LET data == ParsedData(r.form)
    IN [r EXCEPT !.pc = "awaitSql",
                 !.customerId = data.customerId,
                 !.amountInCents = Times(data.amount, 100),
                 !.status = data.status,
                 !.effects = Append(@, Stmt(kind))]

\* createInvoice, lines 107-170
CreateInvoiceCall(formData, t) ==
    LET r == [IdleRun EXCEPT !.op = "create", !.form = formData]
    IN IF ~ParseSuccess(formData)
       THEN ValidationFailure(r, CreateFailedMsg)
       ELSE [PrepareStatement(r, "INSERT") EXCEPT !.date = SplitT0(ToISOString(t))]

\* updateInvoice, lines 197-223
UpdateInvoiceCall(id, formData) ==
    LET r == [IdleRun EXCEPT !.op = "update", !.id = id, !.form = formData]
    IN IF ~ParseSuccess(formData)
       THEN ValidationFailure(r, UpdateFailedMsg)
       ELSE PrepareStatement(r, "UPDATE")

\* deleteInvoice, lines 237-239
DeleteInvoiceCall(id) ==
    [IdleRun EXCEPT !.pc = "awaitSql", !.op = "delete", !.id = id,
                    !.effects = <<Stmt("DELETE")>>]

\* Inserts sent and not yet executed, plus ids handed out, stay within MaxId.
InsertsInFlight ==
    Cardinality({q \in Procs : run[q].pc = "awaitSql" /\ run[q].op = "create"})

createInvoice(p, formData) ==
    /\ run[p].pc = "idle"
    /\ ParseSuccess(formData) => nextId + InsertsInFlight <= MaxId
    /\ run' = [run EXCEPT ![p] = CreateInvoiceCall(formData, now)]
    /\ UNCHANGED <<invoices, nextId, now, auth, session>>

updateInvoice(p, id, formData) ==
    /\ run[p].pc = "idle"
    /\ run' = [run EXCEPT ![p] = UpdateInvoiceCall(id, formData)]
    /\ UNCHANGED <<invoices, nextId, now, auth, session>>

deleteInvoice(p, id) ==
    /\ run[p].pc = "idle"
    /\ run' = [run EXCEPT ![p] = DeleteInvoiceCall(id)]
    /\ UNCHANGED <<invoices, nextId, now, auth, session>>

\* ------------------------------------------------ the store runs a statement
\* The table after run r's statement.
Executed(table, newId, r) ==
    CASE r.op = "create" ->
            SqlInsert(table, newId, r.customerId, r.amountInCents, r.status, r.date)
      [] r.op = "update" ->
            SqlUpdate(table, r.id, r.customerId, r.amountInCents, r.status)
      [] r.op = "delete" -> SqlDelete(table, r.id)

\* await sql`...`: the store executes the statement (ok) or rejects it and
\* leaves the table as it was.
sqlExec(p, ok) ==
    /\ run[p].pc = "awaitSql"
    /\ invoices' = IF ok THEN Executed(invoices, nextId, run[p]) ELSE invoices
    /\ nextId' = IF ok /\ run[p].op = "create" THEN nextId + 1 ELSE nextId
    /\ run' = [run EXCEPT ![p].pc = "resumed", ![p].sqlOk = ok]
    /\ UNCHANGED <<now, auth, session>>

\* ------------------------------------------- the actions, after the await
\* revalidatePath(path); redirect(path): outside any try block, so what
\* either raises leaves the action.  redirect always raises (NEXT_REDIRECT).
RevalidateAndRedirect(r, revalOk) ==
    IF revalOk
    THEN [r EXCEPT !.pc = "done",
                   !.effects = @ \o <<Revalidate(ListingPath), Redirect(ListingPath)>>,
                   !.result = Redirected(ListingPath)]
    ELSE [r EXCEPT !.pc = "done", !.result = Thrown("revalidatePath")]

\* A slip: revalidatePath and redirect moved into the try block, where the
\* catch turns the NEXT_REDIRECT that redirect raises into the error payload.
CreateInvoiceResumeCaught(r, revalOk) ==
    IF ~r.sqlOk
    THEN [r EXCEPT !.pc = "done", !.result = Returned([message |-> CreateDbMsg])]
    ELSE [r EXCEPT !.pc = "done",
                   !.effects = @ \o <<Revalidate(ListingPath), Redirect(ListingPath)>>,
                   !.result = Returned([message |-> CreateDbMsg])]

\* A slip: the catch block logs and does not return.
CreateInvoiceResumeFallsThrough(r, revalOk) == RevalidateAndRedirect(r, revalOk)

\* createInvoice, lines 171-179
CreateInvoiceResume(r, revalOk) ==
    IF ~r.sqlOk
    THEN [r EXCEPT !.pc = "done", !.result = Returned([message |-> CreateDbMsg])]
    ELSE RevalidateAndRedirect(r, revalOk)

\* updateInvoice, lines 224-229
UpdateInvoiceResume(r, revalOk) ==
    IF ~r.sqlOk
    THEN [r EXCEPT !.pc = "done", !.result = Returned([message |-> UpdateDbMsg])]
    ELSE RevalidateAndRedirect(r, revalOk)

\* deleteInvoice, lines 240-245: revalidatePath is inside the try block.
DeleteInvoiceResume(r, revalOk) ==
    IF r.sqlOk /\ revalOk
    THEN [r EXCEPT !.pc = "done",
                   !.effects = Append(@, Revalidate(ListingPath)),
                   !.result = Returned([message |-> DeletedMsg])]
    ELSE [r EXCEPT !.pc = "done", !.result = Returned([message |-> DeleteDbMsg])]

resume(p, revalOk) ==
    /\ run[p].pc = "resumed"
    /\ run' = [run EXCEPT ![p] =
                  CASE run[p].op = "create" -> CreateInvoiceResume(run[p], revalOk)
                    [] run[p].op = "update" -> UpdateInvoiceResume(run[p], revalOk)
                    [] run[p].op = "delete" -> DeleteInvoiceResume(run[p], revalOk)]
    /\ UNCHANGED <<invoices, nextId, now, auth, session>>

\* The request ends: its outcome has gone to the caller.
respond(p) ==
    /\ run[p].pc = "done"
    /\ run' = [run EXCEPT ![p] = IdleRun]
    /\ UNCHANGED <<invoices, nextId, now, auth, session>>

Tick ==
    /\ now < MaxNow
    /\ now' = now + 1
    /\ UNCHANGED <<invoices, nextId, run, auth, session>>

\* ---------------------------------------------------------------- sign-in
\* authenticate -> signIn('credentials', formData) -> authorize(credentials),
\* up to authorize's first await: getUser is called only when the parse
\* succeeds, else authorize returns null.
AuthorizeCall(credentials) ==
    IF CredentialsParse(credentials)
    THEN [IdleAuth EXCEPT !.pc = "awaitUser", !.credentials = credentials,
                          !.lookups = @ + 1]
    ELSE [IdleAuth EXCEPT !.pc = "signIn", !.credentials = credentials,
                          !.authorized = "null"]

authenticate(formData) ==
    /\ auth.pc = "idle"
    /\ auth' = AuthorizeCall(formData)
    /\ UNCHANGED <<invoices, nextId, now, run, session>>

\* getUser: SELECT * FROM users WHERE email = ...; rows[0], or
\* throw new Error('Failed to fetch user.') when the store fails.
GetUserReturn(a, ok) ==
    IF ~ok THEN [a EXCEPT !.pc = "signIn", !.authorized = "throw"]
    ELSE IF a.credentials.email.text \in DOMAIN Users
         THEN [a EXCEPT !.pc = "awaitCompare", !.user = Users[a.credentials.email.text]]
         ELSE [a EXCEPT !.pc = "signIn", !.authorized = "null"]

getUser(ok) ==
    /\ auth.pc = "awaitUser"
    /\ auth' = GetUserReturn(auth, ok)
    /\ UNCHANGED <<invoices, nextId, now, run, session>>

\* const passwordsMatch = await bcrypt.compare(password, user.password);
\* if (passwordsMatch) return user;  ...  return null;
CompareReturn(a) ==
    [a EXCEPT !.pc = "signIn",
              !.authorized = IF BcryptCompare(a.credentials.password.text, a.user.password)
                             THEN "user" ELSE "null"]

authorize ==
    /\ auth.pc = "awaitCompare"
    /\ auth' = CompareReturn(auth)
    /\ UNCHANGED <<invoices, nextId, now, run, session>>

\* What signIn raises: the Credentials provider turns a null from authorize
\* into the AuthError CredentialsSignin and an exception of authorize into
\* the AuthError CallbackRouteError; with a user, the sign-in callbacks may
\* still refuse (AccessDenied), else the session is set and signIn raises
\* the navigation transfer NEXT_REDIRECT, which is no AuthError.  A fault
\* outside the provider surfaces as a plain Error.
AuthErrorTypes == {"CredentialsSignin", "CallbackRouteError", "AccessDenied"}
SignInRaises(authorized, fault) ==
    CASE fault = "error" -> "Error"
      [] authorized = "null" -> "CredentialsSignin"
      [] authorized = "throw" -> "CallbackRouteError"
      [] authorized = "user" /\ fault = "denied" -> "AccessDenied"
      [] OTHER -> "NEXT_REDIRECT"

\* A slip: the catch block without its final `throw error`, the generic
\* message standing in for it.
AuthenticateCatchSwallows(error) ==
    IF error = "CredentialsSignin"
    THEN Returned("Invalid credentials.")
    ELSE Returned("Something went wrong.")

\* authenticate's catch block, lines 264-274.
AuthenticateCatch(error) ==
    IF error \in AuthErrorTypes
    THEN IF error = "CredentialsSignin"
         THEN Returned("Invalid credentials.")
         ELSE Returned("Something went wrong.")
    ELSE Thrown(error)

signIn(fault) ==
    /\ auth.pc = "signIn"
    /\ LET error == SignInRaises(auth.authorized, fault)
       IN /\ auth' = [auth EXCEPT !.pc = "done", !.raised = error,
                                  !.result = AuthenticateCatch(error)]
          /\ session' = IF error = "NEXT_REDIRECT" THEN auth.user.email ELSE session
    /\ UNCHANGED <<invoices, nextId, now, run>>

\* ------------------------------------------------------------- submissions
IdentChars == {"a", "@", "."}
SecretChars == {"p", "q"}
Identifiers == {NullText} \cup {Str(t) : t \in SeqsUpTo(IdentChars, MaxIdentLen)}
Secrets == {NullText} \cup {Str(t) : t \in SeqsUpTo(SecretChars, MaxSecretLen)}
Credentials == [email : Identifiers, password : Secrets]

CustomerIds == {Null, Str(""), Str("c1"), Str("c2")}
Statuses == {Null, Str(""), Str("pending"), Str("paid"), Str("draft")}
AmountChars == {"0", "5", ".", "-"}
Amounts == {NullText} \cup {Str(t) : t \in SeqsUpTo(AmountChars, MaxAmountLen)}
Forms == [customerId : CustomerIds, amount : Amounts, status : Statuses]

\* The submissions of the interleaved runs: two valid ones that differ in
\* every field, and one that fails validation in every field.
SampleForms ==
    {[customerId |-> Str("c2"), amount |-> Str(<<"5">>), status |-> Str("paid")],
     [customerId |-> Str("c1"), amount |-> Str(<<".", "0", "0", "5">>),
      status |-> Str("pending")],
     [customerId |-> Null, amount |-> Str(<<"0">>), status |-> Str("draft")]}

\* ---------------------------------------------------------- specifications
\* Interleaved requests; revalidatePath returns, as it does in a server action.
Next ==
    \/ \E p \in Procs :
        \/ \E f \in SampleForms : createInvoice(p, f)
        \/ \E id \in Ids, f \in SampleForms : updateInvoice(p, id, f)
        \/ \E id \in Ids : deleteInvoice(p, id)
        \/ \E ok \in BOOLEAN : sqlExec(p, ok)
        \/ resume(p, TRUE)
        \/ respond(p)
    \/ Tick

Spec == Init /\ [][Next]_vars

\* The same requests where revalidatePath may also raise (it does so when it
\* is called outside a request's cache scope).
NextFaulty ==
    \/ \E p \in Procs :
        \/ \E f \in SampleForms : createInvoice(p, f)
        \/ \E id \in Ids, f \in SampleForms : updateInvoice(p, id, f)
        \/ \E id \in Ids : deleteInvoice(p, id)
        \/ \E ok \in BOOLEAN : sqlExec(p, ok)
        \/ \E revalOk \in BOOLEAN : resume(p, revalOk)
        \/ respond(p)
    \/ Tick

SpecFaulty == Init /\ [][NextFaulty]_vars

\* One request at a time, over every submission of the bounded alphabet.
NextForms ==
    \/ run["r1"].pc = "idle" /\ \E f \in Forms : createInvoice("r1", f)
    \/ run["r1"].pc = "idle" /\ \E id \in Ids, f \in Forms : updateInvoice("r1", id, f)
    \/ \E ok \in BOOLEAN : sqlExec("r1", ok)
    \/ resume("r1", TRUE)

SpecForms == Init /\ [][NextForms]_vars

\* One sign-in request, over every credential of the bounded alphabet.
NextAuth ==
    \/ auth.pc = "idle" /\ \E c \in Credentials : authenticate(c)
    \/ \E ok \in BOOLEAN : getUser(ok)
    \/ authorize
    \/ \E fault \in {"none", "denied", "error"} : signIn(fault)

SpecAuth == Init /\ [][NextAuth]_vars

\* ------------------------------------------------------------------ claims
Started(r) == r.pc # "idle"
IsFormAction(r) == r.op \in {"create", "update"}
HasFieldError(r, f) ==
    /\ r.pc = "done"
    /\ r.result.kind = "return"
    /\ "errors" \in DOMAIN r.result.value
    /\ f \in DOMAIN r.result.value.errors
CoercesToNonPositive(v) == ~ToNumber(v).nan /\ ~GreaterThan(ToNumber(v), 0)

\* C1: a createInvoice or updateInvoice run whose submitted amount coerces to
\* a number <= 0 (the empty text and an absent field coerce to 0) returns a
\* payload with an errors entry for amount, whatever the other fields are,
\* and has sent no statement, invalidated nothing and transferred nowhere.
C1_AmountRejected ==
    \A p \in Procs :
        (Started(run[p]) /\ IsFormAction(run[p])
            /\ CoercesToNonPositive(run[p].form.amount))
        => /\ HasFieldError(run[p], "amount")
           /\ run[p].effects = <<>>

\* C1 witness: an update with the empty amount and otherwise valid fields
\* came back with the amount error alone.
C1_Witness ==
    \E p \in Procs :
        /\ run[p].op = "update"
        /\ run[p].form = [customerId |-> Str("c1"), amount |-> Str(<<>>),
                          status |-> Str("paid")]
        /\ HasFieldError(run[p], "amount")
        /\ run[p].result.value.errors = [f \in {"amount"} |-> <<AmountMsg>>]

\* C2 (as claimed): a createInvoice or updateInvoice run whose customerId is
\* the empty string or absent returns a payload with an errors entry for
\* customerId and sends no statement.
C2_CustomerIdRejected ==
    \A p \in Procs :
        (Started(run[p]) /\ IsFormAction(run[p])
            /\ run[p].form.customerId \in {Null, Str("")})
        => /\ HasFieldError(run[p], "customerId")
           /\ run[p].effects = <<>>

\* C3 (as claimed): every status other than "pending" and "paid" gets the
\* errors entry "Please select an invoice status.".
C3_StatusMessageAlways ==
    \A p \in Procs :
        (Started(run[p]) /\ IsFormAction(run[p])
            /\ run[p].form.status \notin {Str("pending"), Str("paid")})
        => /\ HasFieldError(run[p], "status")
           /\ run[p].result.value.errors["status"] = <<StatusMsg>>

\* C3 (amended): every status other than "pending" and "paid" gets an errors
\* entry for status; its message is "Please select an invoice status." when
\* the status is absent, and zod's "Invalid enum value..." message naming the
\* received text when it is a string outside the enum (the empty one included).
C3_StatusRejected ==
    \A p \in Procs :
        (Started(run[p]) /\ IsFormAction(run[p])
            /\ run[p].form.status \notin {Str("pending"), Str("paid")})
        => /\ HasFieldError(run[p], "status")
           /\ run[p].result.value.errors["status"] =
                IF run[p].form.status = Null THEN <<StatusMsg>>
                ELSE <<EnumMsg(run[p].form.status.text)>>

\* C3 witness: an update with no status submitted, rejected with the message.
C3_Witness ==
    \E p \in Procs :
        /\ run[p].op = "update"
        /\ run[p].form.status = Null
        /\ HasFieldError(run[p], "status")
        /\ run[p].result.value.errors["status"] = <<StatusMsg>>

StatementAccepted(p) ==
    run[p].pc = "awaitSql" /\ run'[p].pc = "resumed" /\ run'[p].sqlOk
OthersKept(keep) == \A i \in keep : i \in DOMAIN invoices' /\ invoices'[i] = invoices[i]
SubmittedRow(form, date) ==
    [customer_id |-> form.customerId.text,
     amount |-> Times(ToNumber(form.amount), 100),
     status |-> form.status.text,
     date |-> date]

C4_Outcome ==
    \A p \in Procs :
        (run[p].op = "create" /\ run[p].pc = "done" /\ run[p].sqlOk)
        => /\ run[p].effects =
                <<Stmt("INSERT"), Revalidate(ListingPath), Redirect(ListingPath)>>
           /\ run[p].result = Redirected(ListingPath)
C4_Date ==
    \A p \in Procs :
        (run[p].pc = "idle" /\ run'[p].op = "create" /\ run'[p].pc = "awaitSql")
        => run'[p].date = now \div TicksPerDay
C4_Insert ==
    \A p \in Procs :
        (run[p].op = "create" /\ StatementAccepted(p))
        => \E newId \in Ids \ DOMAIN invoices :
              /\ DOMAIN invoices' = DOMAIN invoices \cup {newId}
              /\ invoices'[newId] = SubmittedRow(run[p].form, run[p].date)
              /\ OthersKept(DOMAIN invoices)

\* C4: a createInvoice run with a valid submission whose insert the store
\* accepts adds exactly one row (customerId, amount x 100, status, the UTC day
\* of the clock when the action ran) and keeps every other row; its effects
\* are, in order, the one INSERT, the invalidation of "/dashboard/invoices"
\* and the transfer to "/dashboard/invoices"; it ends in that transfer, not
\* in a returned payload.
C4_CreateSucceeds == []C4_Outcome /\ [][C4_Date /\ C4_Insert]_vars

\* C4 witness: the submission (c2, "5", paid) made on day 1 is row 2, with
\* amount 500, and its run has ended in the transfer.
C4_Witness ==
    \E p \in Procs :
        /\ run[p].op = "create" /\ run[p].pc = "done"
        /\ run[p].result = Redirected(ListingPath)
        /\ 2 \in DOMAIN invoices
        /\ invoices[2] = [customer_id |-> "c2", amount |-> Num(500),
                          status |-> "paid", date |-> 1]

C5_Outcome ==
    \A p \in Procs :
        (run[p].op = "create" /\ run[p].pc = "done"
            /\ ParseSuccess(run[p].form) /\ ~run[p].sqlOk)
        => /\ run[p].result = Returned([message |-> CreateDbMsg])
           /\ run[p].effects = <<Stmt("INSERT")>>
C5_NoRow ==
    \A p \in Procs :
        (run'[p].op = "create" /\ run'[p] # run[p] /\ ~run'[p].sqlOk)
        => invoices' = invoices /\ nextId' = nextId

\* C5: a createInvoice run with a valid submission whose insert the store
\* fails returns exactly {message: "Database Error: Failed to Create
\* Invoice."}, with no errors field; no step of the run changes the table;
\* the run invalidates nothing and transfers nowhere.
C5_CreateStoreFailure == []C5_Outcome /\ [][C5_NoRow]_vars

\* C5 witness: a valid create whose insert failed has returned the message.
C5_Witness ==
    \E p \in Procs :
        /\ run[p].op = "create" /\ run[p].pc = "done"
        /\ ParseSuccess(run[p].form) /\ ~run[p].sqlOk
        /\ run[p].result = Returned([message |-> CreateDbMsg])
        /\ DOMAIN invoices = {1}

C6_Outcome ==
    \A p \in Procs :
        run[p].op = "delete"
        => /\ run[p].result.kind # "redirect"
           /\ \A k \in 1..Len(run[p].effects) : run[p].effects[k] # Redirect(ListingPath)
           /\ (run[p].pc = "done" /\ run[p].sqlOk)
              => /\ run[p].result = Returned([message |-> DeletedMsg])
                 /\ run[p].effects = <<Stmt("DELETE"), Revalidate(ListingPath)>>
C6_Delete ==
    \A p \in Procs :
        (run[p].op = "delete" /\ StatementAccepted(p))
        => /\ DOMAIN invoices' = DOMAIN invoices \ {run[p].id}
           /\ OthersKept(DOMAIN invoices \ {run[p].id})

\* C6: a deleteInvoice(id) run whose delete the store accepts removes the row
\* with that id and no other, keeps every other row as it was, invalidates
\* "/dashboard/invoices" once and returns {message: "Deleted Invoice."}; no
\* deleteInvoice run, accepted or failed, of a present or a missing id,
\* transfers control.
C6_DeleteSucceeds == []C6_Outcome /\ [][C6_Delete]_vars

\* C6 witness: the seeded row 1 is gone, the created row 2 is kept, and the
\* run that deleted 1 has returned "Deleted Invoice.".
C6_Witness ==
    \E p \in Procs :
        /\ run[p].op = "delete" /\ run[p].id = 1 /\ run[p].pc = "done"
        /\ run[p].sqlOk
        /\ run[p].result = Returned([message |-> DeletedMsg])
        /\ DOMAIN invoices = {2}

C9_Outcome ==
    \A p \in Procs :
        (run[p].op = "update" /\ run[p].pc = "done" /\ run[p].sqlOk)
        => /\ run[p].effects =
                <<Stmt("UPDATE"), Revalidate(ListingPath), Redirect(ListingPath)>>
           /\ run[p].result = Redirected(ListingPath)
C9_Update ==
    \A p \in Procs :
        (run[p].op = "update" /\ StatementAccepted(p))
        => /\ DOMAIN invoices' = DOMAIN invoices
           /\ nextId' = nextId
           /\ OthersKept(DOMAIN invoices \ {run[p].id})
           /\ run[p].id \in DOMAIN invoices
              => invoices'[run[p].id] =
                    SubmittedRow(run[p].form, invoices[run[p].id].date)

\* C9: an updateInvoice(id, ...) run with a valid submission whose update the
\* store accepts sends one UPDATE; the statement sets customerId, amount
\* (submitted amount x 100) and status of the row with that id, keeps that
\* row's date, every other row and the set of ids; the run then invalidates
\* "/dashboard/invoices" and transfers control there.
C9_UpdateFrame == []C9_Outcome /\ [][C9_Update]_vars

\* C9 witness: row 2, created on day 1 as (c2, 500, paid), now holds the
\* update (c1, .005 x 100, pending) with its date, beside the seeded row 1.
C9_Witness ==
    \E p \in Procs :
        /\ run[p].op = "update" /\ run[p].id = 2 /\ run[p].pc = "done"
        /\ run[p].result = Redirected(ListingPath)
        /\ DOMAIN invoices = {1, 2}
        /\ invoices[1] = SeedRow
        /\ invoices[2] = [customer_id |-> "c1", amount |-> Norm(5, 1),
                          status |-> "pending", date |-> 1]

\* C10 (as claimed): every invoice row holds a whole number of cents, more
\* than 0, and a status of the enum.
C10_RowsWellFormed ==
    \A i \in DOMAIN invoices :
        /\ IsInteger(invoices[i].amount)
        /\ GreaterThan(invoices[i].amount, 0)
        /\ invoices[i].status \in StatusEnum

\* C7: what authenticate gives back is decided by what signIn raised: for the
\* AuthError CredentialsSignin it returns exactly "Invalid credentials." and
\* no session exists; for an AuthError of any other type it returns exactly
\* "Something went wrong."; anything that is no AuthError (the NEXT_REDIRECT
\* of a successful sign-in included) is raised again, the same value, and no
\* message is returned.
C7_AuthenticateOutcome ==
    auth.pc = "done"
    => /\ auth.raised = "CredentialsSignin"
          => /\ auth.result = Returned("Invalid credentials.")
             /\ session = NoSession
       /\ auth.raised \in {"CallbackRouteError", "AccessDenied"}
          => auth.result = Returned("Something went wrong.")
       /\ auth.raised \notin {"CredentialsSignin", "CallbackRouteError", "AccessDenied"}
          => auth.result = Thrown(auth.raised)

\* C7 witness: the seeded account with a wrong password of valid length:
\* authorize compared, signIn raised CredentialsSignin, authenticate returned
\* the message.
C7_Witness ==
    /\ auth.pc = "done"
    /\ auth.user # Undefined
    /\ auth.authorized = "null"
    /\ auth.raised = "CredentialsSignin"
    /\ auth.result = Returned("Invalid credentials.")
    /\ session = NoSession

\* C8: when the identifier is absent or not email-shaped, or the secret is
\* absent or shorter than 6 characters, authorize returns null and getUser
\* has not been called, whatever the users table holds or answers.
C8_NoLookupOnInvalid ==
    (/\ auth.pc # "idle"
     /\ \/ ~auth.credentials.email.present
        \/ ~IsEmail(auth.credentials.email.text)
        \/ ~auth.credentials.password.present
        \/ Len(auth.credentials.password.text) < 6)
    => /\ auth.lookups = 0
       /\ auth.authorized = "null"
       /\ auth.user = Undefined

\* C8 witness: the seeded email with the first five characters of its
\* password: rejected with no lookup.
C8_Witness ==
    /\ auth.pc = "done"
    /\ auth.credentials = [email |-> Str(SeedEmail),
                           password |-> Str(SubSeq(SeedPassword, 1, 5))]
    /\ auth.lookups = 0
    /\ auth.authorized = "null"

\* Two updateInvoice runs with valid submissions for the same id, both under
\* way at once.
UpdateRace(p, q) ==
    /\ p # q
    /\ run[p].op = "update" /\ run[q].op = "update"
    /\ run[p].id = run[q].id
    /\ ParseSuccess(run[p].form) /\ ParseSuccess(run[q].form)
StatementRan(r) == r.pc \in {"resumed", "done"} /\ r.sqlOk
HoldsSubmission(row, form) ==
    /\ row.customer_id = form.customerId.text
    /\ row.amount = Times(ToNumber(form.amount), 100)
    /\ row.status = form.status.text
SuccessPath(r) ==
    /\ r.effects = <<Stmt("UPDATE"), Revalidate(ListingPath), Redirect(ListingPath)>>
    /\ r.result = Redirected(ListingPath)

C11_Outcome ==
    \A p, q \in Procs :
        (UpdateRace(p, q) /\ StatementRan(run[p]) /\ StatementRan(run[q]))
        => /\ run[p].pc = "done" => SuccessPath(run[p])
           /\ run[p].id \in DOMAIN invoices
              => \/ HoldsSubmission(invoices[run[p].id], run[p].form)
                 \/ HoldsSubmission(invoices[run[p].id], run[q].form)
C11_LastWins ==
    \A p, q \in Procs :
        (UpdateRace(p, q) /\ StatementAccepted(p) /\ run[p].id \in DOMAIN invoices)
        => HoldsSubmission(invoices'[run[p].id], run[p].form)

C12_DbErrorMeansStatementFailed ==
    \A p \in Procs :
        (/\ run[p].pc = "done"
         /\ run[p].result.kind = "return"
         /\ run[p].result.value.message \in {CreateDbMsg, UpdateDbMsg, DeleteDbMsg})
        => ~run[p].sqlOk
====
